---- MODULE Spec2Model ----
(***************************************************************************)
(* Soft Actor-Critic training loop of                                      *)
(* spinup/algos/sac1/sac1_BipedalWalkerHardcore-v2_frame_stack.py:         *)
(* the ReplayBuffer ring, the ordered gradient-update cycle (policy step,  *)
(* value step, Polyak step, optional temperature step) and the main loop   *)
(* (collection, end-of-episode training burst, epoch wrap-up, evaluation). *)
(***************************************************************************)
EXTENDS Integers, Sequences, FiniteSets, TLC

(***************************************************************************)
(* Bounds of the exploration.                                              *)
(***************************************************************************)
MaxCap == 2          \* replay_size ranges over 1..MaxCap
MaxStores == 4       \* store calls made on a buffer explored on its own
MaxBatch == 2        \* batch_size ranges over 1..MaxBatch
MaxParam == 1        \* a network parameter ranges over 0..MaxParam
MaxSteps == 6        \* steps_per_epoch * epochs is at most MaxSteps
PolyakDen == 2       \* polyak ranges over 0/PolyakDen .. PolyakDen/PolyakDen
GammaDen == 2        \* gamma ranges over 0/GammaDen .. GammaDen/GammaDen
MaxEst == 1          \* a reward or an estimate fed to q_backup ranges over -MaxEst..MaxEst
ExpShift == 1        \* alpha = exp(log_alpha) is kept in units of 2^-ExpShift

Obs == {1, 2}        \* observations of the "free" environment (never the zero fill)
Param == 0..MaxParam

\* line 239: test_agent(n=15), called without argument on line 319
NumTestEpisodes == 15
\* line 173: log_alpha is created with initializer=1.0; like the network
\* parameters it lives on an integer grid, one optimizer step per grid step
LogAlphaInit == 1

\* line 141: act_dim = env.action_space.shape[0] of the environments explored
act_dim == 1
\* line 171: target_entropy = -np.prod(env.action_space.shape)
target_entropy == -act_dim
\* the values of logp_pi the policy may give a row: below, at and above
\* -target_entropy
LogpPi == (-target_entropy - 1)..(-target_entropy + 1)

\* lines 164-165, 199, 204: the variable groups of a scope, 'pi', 'q1', 'q2';
\* line 212 pairs the groups of 'main' with those of 'target' in this order
GroupSet == {"pi", "q1", "q2"}

VARIABLES
    \* ReplayBuffer (lines 18-24)
    obs1_buf, obs2_buf, acts_buf, rews_buf, done_buf, ptr, size, max_size,
    \* arguments of sac1 (lines 50-53), one record field per argument
    cfg,
    \* tf variables (lines 153-158, 173)
    main, target, log_alpha,
    \* locals of sac1's main loop (lines 252-319)
    pc, t, o, d, ep_ret, ep_len, j, batch, idxs, ran,
    \* locals of test_agent (lines 239-249)
    test_j, test_d, test_ep_len,
    \* the tensor alpha of the sess.run under way (line 174); the values one
    \* evaluation of q_backup reads and the value it yields (lines 183-187)
    alpha_t, feed, q_backup_val,
    \* history kept for the properties (no counterpart in the program);
    \* env_obs is the observation env last returned, by reset or by step, and
    \* the training episode it belongs to, counted from 1
    hist, asked, trunc_buf, src_log, env_steps, wrap_log, order, cycles,
    total_cycles, last_burst, main_after_value, target_pre, failed,
    test_act, log_alpha_pre, logp_pi, bursts, ep_lens, env_obs

bufvars == <<obs1_buf, obs2_buf, acts_buf, rews_buf, done_buf, ptr, size, max_size>>
cfgvars == <<cfg>>
tfvars == <<main, target, log_alpha>>
loopvars == <<pc, t, o, d, ep_ret, ep_len, j>>
runvars == <<batch, idxs, ran>>
testvars == <<test_j, test_d, test_ep_len>>
ghostvars == <<hist, asked, trunc_buf, src_log, env_steps, wrap_log, order, cycles,
               total_cycles, last_burst, main_after_value, target_pre, failed>>
graphvars == <<feed, q_backup_val>>
auxvars == <<graphvars, alpha_t, test_act, log_alpha_pre, logp_pi, bursts, ep_lens,
            env_obs>>
vars == <<bufvars, cfgvars, tfvars, loopvars, runvars, testvars, ghostvars, auxvars>>

Min(x, y) == IF x <= y THEN x ELSE y

Sign(x) == IF x > 0 THEN 1 ELSE IF x < 0 THEN -1 ELSE 0

RECURSIVE SumSeq(_)
SumSeq(q) == IF q = <<>> THEN 0 ELSE q[1] + SumSeq(Tail(q))

(***************************************************************************)
(* ReplayBuffer                                                            *)
(***************************************************************************)
\* lines 18-24: five zero-filled arrays of length size, ptr = size = 0
BufferInit(n) ==
    /\ obs1_buf = [i \in 0..(n - 1) |-> 0]
    /\ obs2_buf = [i \in 0..(n - 1) |-> 0]
    /\ acts_buf = [i \in 0..(n - 1) |-> 0]
    /\ rews_buf = [i \in 0..(n - 1) |-> 0]
    /\ done_buf = [i \in 0..(n - 1) |-> 0]
    /\ ptr = 0
    /\ size = 0
    /\ max_size = n

\* float(done) as written into the float32 done_buf
AsFloat(b) == IF b THEN 1 ELSE 0

\* a store that forgets to grow size (mutant of store)
store_no_grow(obs, act, rew, next_obs, done) ==
    /\ obs1_buf' = [obs1_buf EXCEPT ![ptr] = obs]
    /\ obs2_buf' = [obs2_buf EXCEPT ![ptr] = next_obs]
    /\ acts_buf' = [acts_buf EXCEPT ![ptr] = act]
    /\ rews_buf' = [rews_buf EXCEPT ![ptr] = rew]
    /\ done_buf' = [done_buf EXCEPT ![ptr] = AsFloat(done)]
    /\ ptr' = (ptr + 1) % max_size
    /\ size' = size
    /\ UNCHANGED max_size

\* a store that never wraps its cursor back to 0 but clamps it (mutant of store)
store_no_wrap(obs, act, rew, next_obs, done) ==
    /\ obs1_buf' = [obs1_buf EXCEPT ![ptr] = obs]
    /\ obs2_buf' = [obs2_buf EXCEPT ![ptr] = next_obs]
    /\ acts_buf' = [acts_buf EXCEPT ![ptr] = act]
    /\ rews_buf' = [rews_buf EXCEPT ![ptr] = rew]
    /\ done_buf' = [done_buf EXCEPT ![ptr] = AsFloat(done)]
    /\ ptr' = Min(ptr + 1, max_size - 1)
    /\ size' = Min(size + 1, max_size)
    /\ UNCHANGED max_size

\* a store that moves its cursor before it writes (mutant of store)
store_advance_first(obs, act, rew, next_obs, done) ==
    /\ obs1_buf' = [obs1_buf EXCEPT ![(ptr + 1) % max_size] = obs]
    /\ obs2_buf' = [obs2_buf EXCEPT ![(ptr + 1) % max_size] = next_obs]
    /\ acts_buf' = [acts_buf EXCEPT ![(ptr + 1) % max_size] = act]
    /\ rews_buf' = [rews_buf EXCEPT ![(ptr + 1) % max_size] = rew]
    /\ done_buf' = [done_buf EXCEPT ![(ptr + 1) % max_size] = AsFloat(done)]
    /\ ptr' = (ptr + 1) % max_size
    /\ size' = Min(size + 1, max_size)
    /\ UNCHANGED max_size

\* lines 26-33
store(obs, act, rew, next_obs, done) ==
    /\ obs1_buf' = [obs1_buf EXCEPT ![ptr] = obs]
    /\ obs2_buf' = [obs2_buf EXCEPT ![ptr] = next_obs]
    /\ acts_buf' = [acts_buf EXCEPT ![ptr] = act]
    /\ rews_buf' = [rews_buf EXCEPT ![ptr] = rew]
    /\ done_buf' = [done_buf EXCEPT ![ptr] = AsFloat(done)]
    /\ ptr' = (ptr + 1) % max_size
    /\ size' = Min(size + 1, max_size)
    /\ UNCHANGED max_size

\* np.random.randint(0, max_size, ...): draws over the whole array (mutant of randint)
randint_capacity(low, high, n) == [1..n -> low..(max_size - 1)]

\* line 36: np.random.randint(low, high, size=n), n independent draws from [low, high)
randint(low, high, n) == [1..n -> low..(high - 1)]

\* lines 37-41: the five parallel slices at idxs
Rows(ix) ==
    [obs1 |-> [i \in DOMAIN ix |-> obs1_buf[ix[i]]],
     obs2 |-> [i \in DOMAIN ix |-> obs2_buf[ix[i]]],
     acts |-> [i \in DOMAIN ix |-> acts_buf[ix[i]]],
     rews |-> [i \in DOMAIN ix |-> rews_buf[ix[i]]],
     done |-> [i \in DOMAIN ix |-> done_buf[ix[i]]]]

\* nothing is fed
NoFeed == [gamma |-> 0, alpha |-> 0, r_ph |-> 0, d_ph |-> 0, q1_pi_ |-> 0, q2_pi_ |-> 0,
           logp_pi2 |-> 0]

NoBatch == [obs1 |-> <<>>, obs2 |-> <<>>, acts |-> <<>>, rews |-> <<>>, done |-> <<>>]

\* lines 35-41; randint raises ValueError when size = 0 (low >= high)
sample_batch(b) ==
    IF size = 0
    THEN /\ failed' = TRUE
         /\ UNCHANGED <<batch, idxs>>
    ELSE /\ \E ix \in randint(0, size, b) :
              /\ idxs' = ix
              /\ batch' = Rows(ix)
         /\ UNCHANGED failed

(***************************************************************************)
(* Arguments of sac1 explored.  env_fn is "free" (any observation and done *)
(* flag at every step) or "const" (one observation, any done flag); both   *)
(* have one action and pay reward 1 at every step.  alpha is "auto" (the   *)
(* str 'auto'), "float" (a Python number) or "str" (any other str); polyak *)
(* is the numerator of polyak over PolyakDen; lr = 0 freezes every         *)
(* optimizer.                                                              *)
(***************************************************************************)
Config(n, b, spe, e, ss, mtr, mte, pk, al, l, sf, ek) ==
    [replay_size |-> n, batch_size |-> b, steps_per_epoch |-> spe, epochs |-> e,
     start_steps |-> ss, max_ep_len_train |-> mtr, max_ep_len_test |-> mte,
     polyak |-> pk, alpha |-> al, lr |-> l, save_freq |-> sf, env_fn |-> ek]

\* steps_per_epoch >= 2 and epochs >= 1 with at most MaxSteps steps in the run
Shapes ==
    {se \in (2..MaxSteps) \X (1..MaxSteps) : se[1] * se[2] <= MaxSteps}

\* runs that vary the loop's shape, on a frozen network: every capacity, shape
\* and training cap; start_steps and save_freq move together (k, k + 1), and
\* the test cap follows the training cap
LoopConfigs ==
    {Config(n, 1, se[1], se[2], k, cap, cap, PolyakDen, "float", 0, k + 1, "free") :
        n \in 1..MaxCap, se \in Shapes, k \in {0, 1}, cap \in {1, 2}}

\* runs that vary the network's updates, on the constant environment, two
\* steps long: every polyak and batch size with a fixed alpha, batches of
\* one and of two rows from a buffer of one slot with a learned alpha
NetConfigs ==
    {Config(MaxCap, b, 2, 1, 0, 2, 1, pk, "float", 1, 1, "const") :
        b \in 1..MaxBatch, pk \in 0..PolyakDen}
    \cup
    {Config(1, b, 2, 1, 0, 2, 1, PolyakDen - 1, "auto", 1, 1, "const") :
        b \in {1, 2}}

\* what follows --alpha on the command line: nothing (the option is not
\* given), auto, or the text of a float
CliAlpha == {"", "auto", "0.2"}

\* line 353: add_argument('--alpha', default=0.1, help=...) names no type, so
\* argparse hands the option's text over as the str it is, and the float
\* default when the option is not given
args_alpha(text) ==
    IF text = "" THEN "float" ELSE IF text = "auto" THEN "auto" ELSE "str"

\* lines 340-461: runs started from the command line, which sets alpha
CliConfigs ==
    {Config(1, 1, 2, 1, 0, 2, 1, PolyakDen - 1, args_alpha(text), 1, 1, "const") :
        text \in CliAlpha}

Configs == LoopConfigs \cup NetConfigs \cup CliConfigs

total_steps == cfg.steps_per_epoch * cfg.epochs      \* line 253

EnvObs == IF cfg.env_fn = "free" THEN Obs ELSE {1}
EnvRew == {1}
EnvAct == {1}

\* the values global_variables_initializer may leave in the variables of the
\* two scopes; the runs on a frozen network and those with a learned alpha
\* are explored from one draw, in which the scopes differ in every variable
InitialMain ==
    IF cfg.lr = 0 \/ cfg.alpha # "float"
    THEN {[g \in GroupSet |-> MaxParam]}
    ELSE [GroupSet -> Param]
InitialTarget ==
    IF cfg.lr = 0 \/ cfg.alpha # "float"
    THEN {[g \in GroupSet |-> 0]}
    ELSE [GroupSet -> Param]

(***************************************************************************)
(* Initial states                                                          *)
(***************************************************************************)
GhostInit ==
    /\ hist = <<>>
    /\ asked = 0
    /\ last_burst = [ep_len |-> 0, cycles |-> 0, timeout |-> FALSE]
    /\ src_log = <<>>
    /\ env_steps = 0
    /\ wrap_log = <<>>
    /\ order = <<>>
    /\ cycles = 0
    /\ total_cycles = 0
    /\ main_after_value = [g \in GroupSet |-> 0]
    /\ target_pre = [g \in GroupSet |-> 0]
    /\ failed = FALSE
    /\ test_act = "none"
    /\ log_alpha_pre = LogAlphaInit
    /\ logp_pi = <<>>
    /\ bursts = 0
    /\ ep_lens = {}
    /\ env_obs = [obs |-> 0, by |-> "none", episode |-> 0]

\* no sess.run is under way and the graph is not evaluated on its own
GraphInit ==
    /\ alpha_t = 0
    /\ feed = NoFeed
    /\ q_backup_val = 0

\* sac1 has been called with its arguments; the variables' initial values
\* are those global_variables_initializer gives them (main and target each
\* their own) once the graph is built
Init ==
    /\ cfg \in Configs
    /\ BufferInit(cfg.replay_size)
    /\ trunc_buf = [i \in 0..(cfg.replay_size - 1) |-> FALSE]
    /\ main \in InitialMain
    /\ target \in InitialTarget
    /\ log_alpha = LogAlphaInit
    /\ pc = "build"
    /\ t = 0 /\ o = 0 /\ d = FALSE /\ ep_ret = 0 /\ ep_len = 0 /\ j = 0
    /\ batch = NoBatch /\ idxs = <<>> /\ ran = {}
    /\ test_j = 0 /\ test_d = FALSE /\ test_ep_len = 0
    /\ GhostInit
    /\ GraphInit

(***************************************************************************)
(* Parameter updates                                                       *)
(***************************************************************************)
\* minimize called without var_list, which then steps every trainable
\* variable the loss reaches (mutant of Minimize)
Minimize_no_var_list(v, var_list) ==
    IF cfg.lr = 0 THEN {v} ELSE [GroupSet -> Param]

\* lines 198-206, 178-179: one AdamOptimizer.minimize step over var_list.  The
\* losses come from the approximator, so the step may leave each listed
\* variable at any value; with lr = 0 Adam's update is exactly zero.
Minimize(v, var_list) ==
    IF cfg.lr = 0
    THEN {v}
    ELSE {w \in [GroupSet -> Param] : \A g \in GroupSet \ var_list : w[g] = v[g]}

\* polyak and 1 - polyak exchanged (mutant of PolyakMix)
PolyakMix_swapped(v_targ, v_main) ==
    (cfg.polyak * v_main + (PolyakDen - cfg.polyak) * v_targ) \div PolyakDen

\* line 211: polyak*v_targ + (1-polyak)*v_main
PolyakMix(v_targ, v_main) ==
    (cfg.polyak * v_targ + (PolyakDen - cfg.polyak) * v_main) \div PolyakDen

\* target_init that assigns only the Q groups (mutant of TargetInitValue)
TargetInitValue_q_only(v_targ, v_main, g) == IF g = "pi" THEN v_targ ELSE v_main

\* line 224: tf.assign(v_targ, v_main)
TargetInitValue(v_targ, v_main, g) == v_main

\* the graph without its control_dependencies blocks (mutant of ControlDeps)
ControlDeps_none(op) == {}

\* lines 205, 210: train_value_op runs after train_pi_op, target_update after
\* train_value_op; train_pi_op, train_alpha_op and tf.exp are created outside
\* the blocks
ControlDeps(op) ==
    CASE op = "pi" -> {}
      [] op = "value" -> {"pi"}
      [] op = "polyak" -> {"value"}
      [] op = "alpha" -> {}
      [] op = "exp" -> {}

\* lines 186, 191: v_backup (in the value step's loss) and pi_loss take the
\* tensor alpha as input; with a learned alpha that tensor is the op
\* tf.exp(log_alpha) of line 174, which train_alpha_op neither waits for nor
\* is waited for by; a Python number needs no op
DataDeps(op) ==
    IF cfg.alpha = "auto" /\ op \in {"pi", "value"} THEN {"exp"} ELSE {}

\* lines 215-220: the ops among step_ops that read or write variables: the
\* update ops and, with a learned alpha, the tensor alpha
step_ops ==
    IF cfg.alpha = "float"
    THEN {"pi", "value", "polyak"}
    ELSE {"pi", "value", "polyak", "alpha", "exp"}

\* a session runs an op once the ops it depends on have run, in any order
\* those dependencies allow
CanRun(op) ==
    /\ pc = "run"
    /\ op \in step_ops
    /\ op \notin ran
    /\ ControlDeps(op) \subseteq ran
    /\ DataDeps(op) \subseteq ran

\* line 174: tf.exp, increasing and one to one; on the grid of log_alpha its
\* value is kept as a power of two in units of 2^-ExpShift
Exp(x) == 2 ^ (x + ExpShift)

\* the gradient taken on the first row of the batch only (mutant of
\* alpha_loss_grad)
alpha_loss_grad_first_row(lp) == -(lp[1] + target_entropy)

\* line 176: the derivative of alpha_loss = mean(-log_alpha *
\* stop_gradient(logp_pi + target_entropy)) with respect to log_alpha,
\* times the batch size
alpha_loss_grad(lp) == -SumSeq([k \in DOMAIN lp |-> lp[k] + target_entropy])

\* lines 178-179: one step of Adam on v with gradient g.  The first step of
\* an optimizer moves v by lr against the sign of g (m_hat / sqrt(v_hat) is
\* g / |g|), a later one, which also weighs the earlier gradients, by at
\* most lr either way.
AdamStep(v, g, first) ==
    IF first THEN {v - cfg.lr * Sign(g)} ELSE {v - cfg.lr, v, v + cfg.lr}

\* lines 170-194: the graph builds when alpha is 'auto' (line 170) or can be
\* a factor of the Tensor logp_pi2 (line 186), as a Python number can; a
\* str times a Tensor raises TypeError
GraphBuilds(al) == al \in {"auto", "float"}

\* lines 133-220: the graph is built, or sac1 ends on the error
BuildGraph ==
    /\ pc = "build"
    /\ pc' = IF GraphBuilds(cfg.alpha) THEN "target_init" ELSE "error"
    /\ UNCHANGED <<bufvars, cfgvars, auxvars, tfvars, t, o, d, ep_ret, ep_len, j,
                   runvars, testvars, ghostvars>>

\* lines 223-229: sess.run(target_init)
TargetInit ==
    /\ pc = "target_init"
    /\ target' = [g \in GroupSet |-> TargetInitValue(target[g], main[g], g)]
    /\ pc' = "reset"
    /\ UNCHANGED <<bufvars, cfgvars, auxvars, main, log_alpha, t, o, d, ep_ret, ep_len, j,
                   runvars, testvars, ghostvars>>

\* line 252: o, r, d, ep_ret, ep_len = env.reset(), 0, False, 0, 0
Start ==
    /\ pc = "reset"
    /\ o' \in EnvObs
    /\ env_obs' = [obs |-> o', by |-> "reset", episode |-> bursts + 1]
    /\ d' = FALSE /\ ep_ret' = 0 /\ ep_len' = 0
    /\ pc' = "step"
    /\ UNCHANGED <<bufvars, cfgvars, graphvars, alpha_t, test_act, log_alpha_pre, logp_pi,
                   bursts, ep_lens, tfvars, t, j, runvars, testvars, ghostvars>>

\* lines 199: train_pi_op
TrainPi ==
    /\ CanRun("pi")
    /\ main' \in Minimize(main, {"pi"})
    /\ ran' = ran \cup {"pi"}
    /\ order' = Append(order, "pi")
    /\ UNCHANGED <<bufvars, cfgvars, auxvars, target, log_alpha, loopvars, batch, idxs, testvars,
                   hist, asked, trunc_buf, src_log, env_steps, wrap_log, cycles, total_cycles,
                   last_burst, main_after_value, target_pre, failed>>

\* lines 203-206: train_value_op
TrainValue ==
    /\ CanRun("value")
    /\ main' \in Minimize(main, {"q1", "q2"})
    /\ main_after_value' = main'
    /\ ran' = ran \cup {"value"}
    /\ order' = Append(order, "value")
    /\ UNCHANGED <<bufvars, cfgvars, auxvars, target, log_alpha, loopvars, batch, idxs, testvars,
                   hist, asked, trunc_buf, src_log, env_steps, wrap_log, cycles, total_cycles,
                   last_burst, target_pre, failed>>

\* lines 210-212: target_update
TargetUpdate ==
    /\ CanRun("polyak")
    /\ target' = [g \in GroupSet |-> PolyakMix(target[g], main[g])]
    /\ ran' = ran \cup {"polyak"}
    /\ order' = Append(order, "polyak")
    /\ UNCHANGED <<bufvars, cfgvars, auxvars, main, log_alpha, loopvars, batch, idxs, testvars,
                   hist, asked, trunc_buf, src_log, env_steps, wrap_log, cycles, total_cycles,
                   last_burst, main_after_value, target_pre, failed>>

\* line 174: the tensor alpha is computed from log_alpha as it is then
ReadAlpha ==
    /\ CanRun("exp")
    /\ alpha_t' = Exp(log_alpha)
    /\ ran' = ran \cup {"exp"}
    /\ order' = Append(order, "exp")
    /\ UNCHANGED <<bufvars, cfgvars, graphvars, env_obs, test_act, log_alpha_pre, logp_pi, bursts,
                   ep_lens, tfvars, loopvars, batch, idxs, testvars,
                   hist, asked, trunc_buf, src_log, env_steps, wrap_log, cycles, total_cycles,
                   last_burst, main_after_value, target_pre, failed>>

\* lines 176-179: train_alpha_op on the logp_pi of the batch's rows, the
\* alpha optimizer having stepped once in each earlier cycle
TrainAlpha ==
    /\ CanRun("alpha")
    /\ \E lp \in [1..cfg.batch_size -> LogpPi] :
          /\ logp_pi' = lp
          /\ log_alpha' \in AdamStep(log_alpha, alpha_loss_grad(lp), total_cycles = 0)
    /\ ran' = ran \cup {"alpha"}
    /\ order' = Append(order, "alpha")
    /\ UNCHANGED <<bufvars, cfgvars, graphvars, env_obs, alpha_t, test_act, log_alpha_pre, bursts,
                   ep_lens, main, target, loopvars, batch, idxs, testvars,
                   hist, asked, trunc_buf, src_log, env_steps, wrap_log, cycles, total_cycles,
                   last_burst, main_after_value, target_pre, failed>>

(***************************************************************************)
(* Main loop                                                               *)
(***************************************************************************)
\* line 263: if t > start_steps
UsePolicy(tt) == tt > cfg.start_steps

\* the observation left as it was after a step (mutant of NextObs)
NextObs_stale(obs, next_obs) == obs

\* line 283: o = o2
NextObs(obs, next_obs) == next_obs

\* line 286: if d or (ep_len == max_ep_len_train)
EpisodeOver(dd, len) == dd \/ (len = cfg.max_ep_len_train)

\* the cap counted as a terminal state (mutant of StoredDone)
StoredDone_cap_terminal(dd, len) == dd \/ (len = cfg.max_ep_len_train)

\* lines 276-279: d goes to store as env.step returned it (the line that
\* would rewrite it at the cap is commented out)
StoredDone(dd, len) == dd

\* the terminal flag itself as the factor (mutant of NotDone)
NotDone_flag(d_ph) == d_ph

\* line 187: the factor (1 - d_ph) of the bootstrapped term of q_backup
NotDone(d_ph) == 1 - d_ph

\* line 183: min_q_pi = tf.minimum(q1_pi_, q2_pi_), the target scope's two
\* Q estimates
min_q_pi(q1_pi_, q2_pi_) == Min(q1_pi_, q2_pi_)

\* line 186: v_backup = tf.stop_gradient(min_q_pi - alpha * logp_pi2);
\* stop_gradient passes its value on
v_backup(mq, alpha, logp_pi2) == mq - alpha * logp_pi2

\* line 187: q_backup = r_ph + gamma*(1-d_ph)*v_backup, for gamma the
\* numerator of gamma over GammaDen and the result in units of 1/GammaDen
q_backup(r_ph, d_ph, gamma, vb) == GammaDen * r_ph + gamma * NotDone(d_ph) * vb

\* one cycle per episode, whatever its length (mutant of BurstLength)
BurstLength_one(len) == 1

\* a burst one cycle short (mutant of BurstLength)
BurstLength_short(len) == len - 1

\* line 292: for j in range(ep_len)
BurstLength(len) == len

\* line 311: if t > 0 and t % steps_per_epoch == 0
WrapUpDue(tt) == tt > 0 /\ tt % cfg.steps_per_epoch = 0

\* a checkpoint only every save_freq epochs (mutant of SaveDue)
SaveDue_freq_only(epoch) == epoch % cfg.save_freq = 0

\* line 315: (epoch % save_freq == 0) or (epoch == epochs-1)
SaveDue(epoch) == (epoch % cfg.save_freq = 0) \/ (epoch = cfg.epochs - 1)

\* line 256: the next value of range(total_steps), or the end of the loop
NextIteration ==
    /\ t' = t + 1
    /\ pc' = IF t + 1 < total_steps THEN "step" ELSE "done"

\* lines 263-286: choose the action, step the env, store, o = o2, test for
\* the end of the episode
Step ==
    /\ pc = "step"
    /\ \E a \in EnvAct, o2 \in EnvObs, r \in EnvRew, dd \in BOOLEAN :
          /\ store(o, a, r, o2, StoredDone(dd, ep_len + 1))
          /\ trunc_buf' = [trunc_buf EXCEPT
                              ![ptr] = ~dd /\ (ep_len + 1 = cfg.max_ep_len_train)]
          /\ ep_ret' = ep_ret + r
          /\ ep_len' = ep_len + 1
          /\ o' = NextObs(o, o2)
          /\ env_obs' = [env_obs EXCEPT !.obs = o2, !.by = "step"]
          /\ d' = dd
          /\ IF EpisodeOver(dd, ep_len + 1)
             THEN pc' = "burst" /\ j' = 0 /\ ep_lens' = ep_lens \cup {ep_len + 1}
             ELSE pc' = "epoch" /\ j' = j /\ ep_lens' = ep_lens
    /\ src_log' = Append(src_log, IF UsePolicy(t) THEN "policy" ELSE "random")
    /\ env_steps' = env_steps + 1
    /\ UNCHANGED <<cfgvars, graphvars, alpha_t, test_act, log_alpha_pre, logp_pi, bursts,
                   tfvars, t, runvars, testvars, hist, asked, wrap_log, order,
                   cycles, total_cycles, last_burst, main_after_value, target_pre, failed>>

\* lines 292-299: the next j of range(ep_len) draws its batch
Sample ==
    /\ pc = "burst"
    /\ j < BurstLength(ep_len)
    /\ sample_batch(cfg.batch_size)
    /\ asked' = cfg.batch_size
    /\ pc' = IF size = 0 THEN "crashed" ELSE "run"
    /\ ran' = {}
    /\ order' = <<>>
    /\ target_pre' = target
    /\ UNCHANGED <<bufvars, cfgvars, auxvars, tfvars, t, o, d, ep_ret, ep_len, j, testvars,
                   hist, trunc_buf, src_log, env_steps, wrap_log, cycles, total_cycles, last_burst,
                   main_after_value>>

\* lines 301-304: sess.run(step_ops) has returned, logger.store; the batch
\* is not read again
RunEnd ==
    /\ pc = "run"
    /\ ran = step_ops
    /\ j' = j + 1
    /\ cycles' = cycles + 1
    /\ total_cycles' = total_cycles + 1
    /\ batch' = NoBatch /\ idxs' = <<>> /\ ran' = {}
    /\ alpha_t' = 0 /\ logp_pi' = <<>>
    /\ log_alpha_pre' = log_alpha
    /\ pc' = "burst"
    /\ UNCHANGED <<bufvars, cfgvars, graphvars, env_obs, test_act, bursts, ep_lens, tfvars, t, o, d, ep_ret, ep_len, testvars,
                   hist, asked, trunc_buf, src_log, env_steps, wrap_log, order,
                   last_burst, main_after_value, target_pre, failed>>

\* lines 306-307: range(ep_len) is exhausted; logger.store, env.reset()
BurstEnd ==
    /\ pc = "burst"
    /\ j >= BurstLength(ep_len)
    /\ last_burst' = [ep_len |-> ep_len, cycles |-> cycles, timeout |-> ~d]
    /\ cycles' = 0
    /\ bursts' = bursts + 1
    /\ o' \in EnvObs
    /\ env_obs' = [obs |-> o', by |-> "reset", episode |-> bursts + 2]
    /\ d' = FALSE /\ ep_ret' = 0 /\ ep_len' = 0
    /\ pc' = "epoch"
    /\ UNCHANGED <<bufvars, cfgvars, graphvars, alpha_t, test_act, log_alpha_pre, logp_pi,
                   ep_lens, tfvars, t, j, runvars, testvars, hist, asked,
                   trunc_buf, src_log, env_steps, wrap_log, order, total_cycles,
                   main_after_value, target_pre, failed>>

\* lines 311-316: the wrap-up test fails and the loop goes on
EpochSkip ==
    /\ pc = "epoch"
    /\ ~WrapUpDue(t)
    /\ NextIteration
    /\ UNCHANGED <<bufvars, cfgvars, auxvars, tfvars, o, d, ep_ret, ep_len, j, runvars,
                   testvars, ghostvars>>

\* lines 311-319: the wrap-up test holds; save decision, then test_agent()
EpochWrapUp ==
    /\ pc = "epoch"
    /\ WrapUpDue(t)
    /\ wrap_log' = Append(wrap_log,
                          [t |-> t, env_steps |-> env_steps,
                           epoch |-> t \div cfg.steps_per_epoch,
                           saved |-> SaveDue(t \div cfg.steps_per_epoch)])
    /\ test_j' = 0
    /\ pc' = "test"
    /\ UNCHANGED <<bufvars, cfgvars, auxvars, tfvars, t, o, d, ep_ret, ep_len, j, runvars,
                   test_d, test_ep_len, hist, asked, trunc_buf, src_log, env_steps,
                   order, cycles, total_cycles, last_burst, main_after_value, target_pre, failed>>

(***************************************************************************)
(* test_agent                                                              *)
(***************************************************************************)
\* get_action sampling from the policy whatever it is asked (mutant of act_op)
act_op_stochastic(deterministic) == "pi"

\* line 236: act_op = mu if deterministic else pi
act_op(deterministic) == IF deterministic THEN "mu" ELSE "pi"

\* line 243: while not(d or (ep_len == max_ep_len_test))
TestEpisodeOver(dd, len) == dd \/ (len = cfg.max_ep_len_test)

\* test_agent writing the training loop's o, ep_ret and ep_len instead of
\* locals of its own (mutant of TestReset)
TestReset_shared_locals ==
    /\ pc = "test"
    /\ test_j < NumTestEpisodes
    /\ test_d' = FALSE /\ test_ep_len' = 0
    /\ o' \in EnvObs /\ ep_ret' = 0 /\ ep_len' = 0
    /\ pc' = IF cfg.max_ep_len_test = 0 THEN "test_logged" ELSE "test_ep"
    /\ UNCHANGED <<bufvars, cfgvars, auxvars, tfvars, t, d, j, runvars, test_j, ghostvars>>

\* lines 241-242: the next j of range(n) resets test_env
TestReset ==
    /\ pc = "test"
    /\ test_j < NumTestEpisodes
    /\ test_d' = FALSE /\ test_ep_len' = 0
    /\ pc' = IF TestEpisodeOver(FALSE, 0) THEN "test_logged" ELSE "test_ep"
    /\ UNCHANGED <<bufvars, cfgvars, auxvars, tfvars, t, o, d, ep_ret, ep_len, j, runvars,
                   test_j, ghostvars>>

\* lines 243-247: one step of test_env on get_action(o, True)
TestStep ==
    /\ pc = "test_ep"
    /\ test_act' = act_op(TRUE)
    /\ \E dd \in BOOLEAN :
          /\ test_d' = dd
          /\ test_ep_len' = test_ep_len + 1
          /\ pc' = IF TestEpisodeOver(dd, test_ep_len + 1) THEN "test_logged"
                   ELSE "test_ep"
    /\ UNCHANGED <<bufvars, cfgvars, graphvars, env_obs, alpha_t, log_alpha_pre, logp_pi, bursts,
                   ep_lens, tfvars, t, o, d, ep_ret, ep_len, j, runvars, test_j, ghostvars>>

\* line 249: logger.store(TestEpRet, TestEpLen) ends the episode
TestLog ==
    /\ pc = "test_logged"
    /\ test_j' = test_j + 1
    /\ pc' = "test"
    /\ UNCHANGED <<bufvars, cfgvars, auxvars, tfvars, t, o, d, ep_ret, ep_len, j, runvars,
                   test_d, test_ep_len, ghostvars>>

\* lines 323-339: range(n) is exhausted; the epoch's table is dumped
TestDone ==
    /\ pc = "test"
    /\ test_j >= NumTestEpisodes
    /\ NextIteration
    /\ UNCHANGED <<bufvars, cfgvars, auxvars, tfvars, o, d, ep_ret, ep_len, j, runvars,
                   testvars, ghostvars>>

Next ==
    \/ BuildGraph
    \/ TargetInit
    \/ Start
    \/ Step
    \/ Sample
    \/ TrainPi
    \/ TrainValue
    \/ TargetUpdate
    \/ TrainAlpha
    \/ ReadAlpha
    \/ RunEnd
    \/ BurstEnd
    \/ EpochSkip
    \/ EpochWrapUp
    \/ TestReset
    \/ TestStep
    \/ TestLog
    \/ TestDone

Spec == Init /\ [][Next]_vars

(***************************************************************************)
(* The ReplayBuffer on its own: any store and sample_batch calls           *)
(***************************************************************************)
\* transitions <<obs, act, rew, next_obs, done>> handed to store: every field
\* takes two values (all of them float32 values, which the arrays hold as
\* given), none of them the zero fill of obs, next_obs and act
StoreInputs ==
    {<<1, 1, 0, 2, FALSE>>, <<2, 2, 1, 1, TRUE>>, <<1, 2, 1, 1, FALSE>>,
     <<2, 1, 0, 2, TRUE>>}

InitBuffer ==
    /\ cfg \in {Config(n, 1, 2, 1, 0, 1, 1, PolyakDen, "float", 0, 1, "free") :
                   n \in 1..MaxCap}
    /\ BufferInit(cfg.replay_size)
    /\ trunc_buf = [i \in 0..(cfg.replay_size - 1) |-> FALSE]
    /\ main = [g \in GroupSet |-> 0]
    /\ target = [g \in GroupSet |-> 0]
    /\ log_alpha = LogAlphaInit
    /\ pc = "buffer"
    /\ t = 0 /\ o = 0 /\ d = FALSE /\ ep_ret = 0 /\ ep_len = 0 /\ j = 0
    /\ batch = NoBatch /\ idxs = <<>> /\ ran = {}
    /\ test_j = 0 /\ test_d = FALSE /\ test_ep_len = 0
    /\ GhostInit
    /\ GraphInit

\* replay_buffer.store(obs, act, rew, next_obs, done); a batch drawn before
\* it is dropped
BufStore ==
    /\ pc = "buffer"
    /\ ~failed
    /\ Len(hist) < MaxStores
    /\ \E tr \in StoreInputs :
          /\ store(tr[1], tr[2], tr[3], tr[4], tr[5])
          /\ hist' = Append(hist, tr)
    /\ batch' = NoBatch /\ idxs' = <<>> /\ asked' = 0
    /\ UNCHANGED <<cfgvars, auxvars, tfvars, loopvars, ran, testvars, trunc_buf, src_log,
                   env_steps, wrap_log, order, cycles, total_cycles, last_burst, main_after_value,
                   target_pre, failed>>

\* replay_buffer.sample_batch(b)
BufSample ==
    /\ pc = "buffer"
    /\ ~failed
    /\ \E b \in 1..MaxBatch :
          /\ sample_batch(b)
          /\ asked' = b
    /\ UNCHANGED <<bufvars, cfgvars, auxvars, tfvars, loopvars, ran, testvars, hist, trunc_buf,
                   src_log, env_steps, wrap_log, order, cycles, total_cycles, last_burst,
                   main_after_value, target_pre>>

NextBuffer ==
    \/ BufStore
    \/ BufSample

SpecBuffer == InitBuffer /\ [][NextBuffer]_vars

(***************************************************************************)
(* The backup of lines 183-187 on its own: any row and estimates fed       *)
(***************************************************************************)
\* a reward, a Q estimate or a log-probability on the grid
Est == (-MaxEst)..MaxEst

\* what one evaluation reads: gamma and alpha, the row's r_ph and d_ph (the
\* float of a stored done flag), the target scope's q1_pi_ and q2_pi_ and
\* the main scope's logp_pi2 at the row's next observation
Feeds ==
    [gamma : 0..GammaDen, alpha : Est, r_ph : Est, d_ph : {AsFloat(FALSE), AsFloat(TRUE)},
     q1_pi_ : Est, q2_pi_ : Est, logp_pi2 : Est]

InitLoss ==
    /\ cfg = Config(1, 1, 2, 1, 0, 1, 1, PolyakDen, "float", 0, 1, "const")
    /\ BufferInit(cfg.replay_size)
    /\ trunc_buf = [i \in 0..(cfg.replay_size - 1) |-> FALSE]
    /\ main = [g \in GroupSet |-> 0]
    /\ target = [g \in GroupSet |-> 0]
    /\ log_alpha = LogAlphaInit
    /\ pc = "idle"
    /\ t = 0 /\ o = 0 /\ d = FALSE /\ ep_ret = 0 /\ ep_len = 0 /\ j = 0
    /\ batch = NoBatch /\ idxs = <<>> /\ ran = {}
    /\ test_j = 0 /\ test_d = FALSE /\ test_ep_len = 0
    /\ GhostInit
    /\ GraphInit

\* lines 294-301: a row and the estimates for it reach the graph
FeedRow ==
    /\ pc = "idle"
    /\ feed' \in Feeds
    /\ q_backup_val' = 0
    /\ pc' = "graph"
    /\ UNCHANGED <<bufvars, cfgvars, env_obs, alpha_t, test_act, log_alpha_pre, logp_pi, bursts,
                   ep_lens, tfvars, t, o, d, ep_ret, ep_len, j, runvars, testvars,
                   ghostvars>>

\* lines 183-187: q_backup is evaluated on what was fed
EvalBackup ==
    /\ pc = "graph"
    /\ q_backup_val' =
          q_backup(feed.r_ph, feed.d_ph, feed.gamma,
                   v_backup(min_q_pi(feed.q1_pi_, feed.q2_pi_), feed.alpha, feed.logp_pi2))
    /\ pc' = "evaluated"
    /\ UNCHANGED <<bufvars, cfgvars, env_obs, feed, alpha_t, test_act, log_alpha_pre, logp_pi,
                   bursts, ep_lens, tfvars, t, o, d, ep_ret, ep_len, j, runvars,
                   testvars, ghostvars>>

NextLoss ==
    \/ FeedRow
    \/ EvalBackup

SpecLoss == InitLoss /\ [][NextLoss]_vars

(***************************************************************************)
(* Properties                                                              *)
(***************************************************************************)
\* a stored transition as the five arrays hold it
Stored(tr) == <<tr[1], tr[2], tr[3], tr[4], AsFloat(tr[5])>>

\* slot i of the five arrays, in store's argument order
SlotAt(i) == <<obs1_buf[i], acts_buf[i], rews_buf[i], obs2_buf[i], done_buf[i]>>

\* row k of the batch, in store's argument order
RowAt(k) == <<batch.obs1[k], batch.acts[k], batch.rews[k], batch.obs2[k], batch.done[k]>>

\* the store calls (positions of hist) whose transitions have not been overwritten
Surviving == {m \in 1..Len(hist) : m > Len(hist) - max_size}

\* the three parameter writes of the current cycle, in the order they ran
Writes == SelectSeq(order, LAMBDA op : op \in {"pi", "value", "polyak"})

\* C1: after k store calls on a fresh buffer of capacity N, size is k when
\* k <= N and N when k > N, and the slots hold exactly the min(k, N) most
\* recent transitions, store call m in slot (m - 1) mod N with all five of
\* its fields.
C1_MostRecentKept ==
    /\ (Len(hist) <= max_size => size = Len(hist))
    /\ (Len(hist) > max_size => size = max_size)
    /\ \A m \in Surviving : SlotAt((m - 1) % max_size) = Stored(hist[m])

C1_Witness ==
    /\ pc = "buffer"
    /\ max_size >= 2
    /\ Len(hist) > max_size
    /\ hist[Len(hist)] # hist[Len(hist) - max_size]

\* C2: with size > 0, sample_batch(b) does not fail and returns b rows per
\* field; every row's index is below size and the row is, field for field,
\* the transition of one store call that still survives in that slot.
C2_BatchFromWrittenSlots ==
    /\ failed => size = 0
    /\ (asked > 0 /\ ~failed) =>
          /\ \A f \in DOMAIN batch : Len(batch[f]) = asked
          /\ Len(idxs) = asked
          /\ \A k \in 1..asked :
                /\ idxs[k] \in 0..(size - 1)
                /\ \E m \in Surviving :
                      /\ (m - 1) % max_size = idxs[k]
                      /\ RowAt(k) = Stored(hist[m])

C2_Witness ==
    /\ pc = "buffer"
    /\ asked = 2
    /\ ~failed
    /\ size < max_size
    /\ idxs[1] = idxs[2]

\* C3: in every gradient-update cycle the writes run in the order policy
\* step, value step, Polyak step; once the Polyak step has run, the targets
\* are the mix of the targets before the cycle with the main parameters as
\* the value step left them, and a completed cycle has run all three.
C3_UpdateOrder ==
    /\ Writes \in {<<>>, <<"pi">>, <<"pi", "value">>, <<"pi", "value", "polyak">>}
    /\ Len(Writes) = 3 =>
          /\ main = main_after_value
          /\ target = [g \in GroupSet |-> PolyakMix(target_pre[g], main_after_value[g])]
    /\ (pc = "burst" /\ j > 0) => Len(Writes) = 3

C3_Witness ==
    /\ pc = "burst"
    /\ j > 0
    /\ cfg.lr = 1
    /\ target # target_pre
    /\ target # main

\* C4: a batch is drawn and a cycle runs only once the episode is over
\* (done, or ep_len at max_ep_len_train); each cycle has its own batch of
\* batch_size rows; while transitions are collected no cycle of the current
\* episode has run; and the reset that follows a burst comes after exactly
\* ep_len cycles and leaves ep_ret = ep_len = 0 and d = False.
C4_TrainAtEpisodeEnd ==
    /\ pc \in {"burst", "run"} => (d \/ ep_len = cfg.max_ep_len_train)
    /\ pc = "run" => (Len(idxs) = cfg.batch_size /\ cycles = j)
    /\ pc = "step" => cycles = 0
    /\ (pc = "epoch" /\ ep_len > 0) => (cycles = 0 /\ ~d /\ ep_len < cfg.max_ep_len_train)
    /\ (pc = "epoch" /\ ep_len = 0) =>
          /\ last_burst.cycles = last_burst.ep_len
          /\ last_burst.ep_len >= 1
          /\ ep_ret = 0
          /\ ~d

C4_Witness ==
    /\ pc = "epoch"
    /\ ep_len = 0
    /\ last_burst.ep_len = 2
    /\ last_burst.timeout

\* C5 (as claimed): exactly the first start_steps environment steps take
\* their action from env.action_space.sample(), every later one from the
\* policy.
C5_FirstStartStepsRandom ==
    \A i \in 1..Len(src_log) :
        src_log[i] = "random" <=> i <= cfg.start_steps

\* C6 (as claimed): the epoch wrap-up runs exactly when the number of
\* environment steps taken reaches a positive multiple of steps_per_epoch.
C6_WrapUpAtMultiples ==
    /\ \A i \in 1..Len(wrap_log) :
          wrap_log[i].env_steps % cfg.steps_per_epoch = 0
    /\ pc = "done" => Len(wrap_log) = cfg.epochs

\* C7 (as claimed): a transition that ends an episode at the cap while the
\* environment reported done = False is stored with its terminal flag set.
C7_TruncationStoredTerminal ==
    \A i \in 0..(max_size - 1) : trunc_buf[i] => done_buf[i] = 1

\* C7 (amended): such a transition is stored with the flag the environment
\* reported, 0, so whenever it is sampled the factor (1 - terminal) of
\* q_backup is 1 and the bootstrapped term is kept.
C7_TruncationStoredAsReported ==
    /\ \A i \in 0..(max_size - 1) : trunc_buf[i] => done_buf[i] = 0
    /\ \A k \in 1..Len(idxs) : trunc_buf[idxs[k]] => NotDone(batch.done[k]) = 1

C7_Witness ==
    /\ pc = "run"
    /\ \E k \in 1..Len(idxs) : trunc_buf[idxs[k]]
    /\ ~d
    /\ ep_len = cfg.max_ep_len_train

\* C8: the training loop never draws a batch from an empty buffer: no
\* sample_batch call fails, and whenever a burst is under way size >= 1.
C8_NeverSampleEmpty ==
    /\ ~failed
    /\ pc # "crashed"
    /\ pc \in {"burst", "run"} => size >= 1

C8_Witness ==
    /\ pc = "run"
    /\ t = 0
    /\ size = 1
    /\ cfg.max_ep_len_train = 2
    /\ d

\* C9: once target_init has run and until the first optimizer step of the
\* first gradient-update cycle, every target parameter equals its paired
\* main parameter.
C9_TargetEqualsMainBeforeTraining ==
    (pc \notin {"build", "error", "target_init"} /\ total_cycles = 0
        /\ (pc = "run" => ran \subseteq {"alpha", "exp"}))
        => target = main

C9_Witness ==
    /\ pc = "step"
    /\ t = 1
    /\ total_cycles = 0
    /\ cfg.lr = 1
    /\ main["pi"] # main["q1"]

\* C10: one Polyak step leaves every target parameter as it was before the
\* cycle when polyak = 1, and makes it equal to its paired main parameter,
\* as the value step of the cycle left it, when polyak = 0.
C10_PolyakEndpoints ==
    Len(Writes) = 3 =>
        /\ cfg.polyak = PolyakDen => target = target_pre
        /\ cfg.polyak = 0 => target = main_after_value

C10_Witness ==
    /\ Len(Writes) = 3
    /\ cfg.polyak = PolyakDen
    /\ cfg.lr = 1
    /\ main_after_value # target

\* the store call (position of hist) whose transition is the oldest one held
Oldest == Len(hist) - max_size + 1

\* C17: after k store calls on a buffer of capacity N, 0 <= ptr < N,
\* ptr = k mod N and 0 <= size <= N; once size = N the slot at ptr holds the
\* oldest transition still stored, the one the next store overwrites; and
\* no store or sample_batch call makes size smaller.
C17_RingInvariant ==
    /\ [](/\ ptr \in 0..(max_size - 1)
          /\ ptr = Len(hist) % max_size
          /\ size \in 0..max_size
          /\ size = max_size => SlotAt(ptr) = Stored(hist[Oldest]))
    /\ [][size' >= size]_vars

C17_Witness ==
    /\ pc = "buffer"
    /\ max_size >= 2
    /\ size = max_size
    /\ ptr = 1
    /\ Len(hist) > max_size
    /\ hist[Oldest] # hist[Len(hist)]

TestPcs == {"test", "test_ep", "test_logged"}

\* C18: the replay buffer (the five arrays, ptr, size) changes only in the
\* step that calls store: drawing a batch, the update ops of a cycle, the
\* end of a burst, the wrap-up with its checkpoint and every step of
\* test_agent leave it as it was; and from the wrap-up's start to the end
\* of test_agent the training loop's o, ep_ret and ep_len do not change.
C18_OnlyStoreWritesBuffer ==
    /\ [][bufvars' # bufvars => pc = "step"]_vars
    /\ [][(pc \in TestPcs \/ pc' \in TestPcs) => UNCHANGED <<o, ep_ret, ep_len>>]_vars

C18_Witness ==
    /\ pc = "step"
    /\ Len(wrap_log) >= 1
    /\ test_j = NumTestEpisodes
    /\ ep_len >= 1
    /\ size = max_size
    /\ total_cycles >= 2

\* the step under way is the run of update op `op` of the current cycle
Runs(op) == op \in ran' /\ op \notin ran

\* C16: the policy step changes main parameters of the group 'pi' only,
\* the value step main parameters of the groups 'q1' and 'q2' only, the
\* temperature step log_alpha only (no main or target parameter), and a
\* target parameter changes only in target_init or in the Polyak step.
C16_UpdatesWriteOwnParameters ==
    /\ [][Runs("pi") =>
            /\ \A g \in GroupSet \ {"pi"} : main'[g] = main[g]
            /\ UNCHANGED <<target, log_alpha>>]_vars
    /\ [][Runs("value") =>
            /\ \A g \in GroupSet \ {"q1", "q2"} : main'[g] = main[g]
            /\ UNCHANGED <<target, log_alpha>>]_vars
    /\ [][Runs("alpha") => UNCHANGED <<main, target>>]_vars
    /\ [][target' # target => (pc = "target_init" \/ Runs("polyak"))]_vars

C16_Witness ==
    /\ pc = "run"
    /\ ran = step_ops
    /\ cfg.alpha = "auto"
    /\ total_cycles = 0
    /\ log_alpha # LogAlphaInit
    /\ main["pi"] # target_pre["pi"]
    /\ main["q1"] # target_pre["q1"]
    /\ target # target_pre

\* the steps test_agent has taken in its current pass count up to this
TestProgress ==
    test_j * (cfg.max_ep_len_test + 2)
        + (CASE pc = "test_ep" -> 1 + test_ep_len
             [] pc = "test_logged" -> 1 + cfg.max_ep_len_test
             [] OTHER -> 0)

\* C15: an evaluation pass ends after exactly n = 15 test episodes: every
\* step inside test_agent raises a count that is bounded by
\* n * (max_ep_len_test + 2), no pass goes beyond n episodes and a pass that
\* has returned has run n; an episode is under way only below
\* max_ep_len_test steps with done not reported and is over only at
\* max_ep_len_test steps or on done; and every action of test_agent is the
\* op mu, the policy's mean.
C15_EvaluationPass ==
    /\ [](/\ test_j \in 0..NumTestEpisodes
          /\ test_ep_len \in 0..cfg.max_ep_len_test
          /\ TestProgress <= NumTestEpisodes * (cfg.max_ep_len_test + 2)
          /\ pc = "test_ep" => (~test_d /\ test_ep_len < cfg.max_ep_len_test)
          /\ pc = "test_logged" => (test_d \/ test_ep_len = cfg.max_ep_len_test)
          /\ (pc \notin TestPcs /\ Len(wrap_log) >= 1) => test_j = NumTestEpisodes
          /\ test_act \in {"none", "mu"})
    /\ [][(pc \in TestPcs) => (TestProgress' > TestProgress \/ pc' \notin TestPcs)]_vars

C15_Witness ==
    /\ pc \in {"step", "done"}
    /\ Len(wrap_log) = 1
    /\ test_j = NumTestEpisodes
    /\ test_act = "mu"
    /\ cfg.max_ep_len_test = 2
    /\ test_d
    /\ test_ep_len = 1

\* C12: while every training episode completed so far has ended after
\* exactly L steps, each burst has run exactly L cycles and there has been
\* one burst per completed episode (L cycles times the number of bursts
\* accounts for every cycle run); when such a run ends with no episode left
\* unfinished and T = steps_per_epoch * epochs a multiple of L, it has run
\* T/L bursts; and the buffer's size is min(steps taken, N) throughout, so
\* min(T, N) at the end.
C12_UniformEpisodes ==
    /\ size = Min(env_steps, max_size)
    /\ pc = "done" => env_steps = total_steps
    /\ \A L \in 1..cfg.max_ep_len_train :
          ep_lens = {L} =>
             /\ bursts >= 1 => (last_burst.ep_len = L /\ last_burst.cycles = L)
             /\ total_cycles = L * bursts + cycles
             /\ bursts = IF pc \in {"burst", "run"}
                         THEN env_steps \div L - 1
                         ELSE (env_steps - ep_len) \div L
             /\ (pc = "done" /\ ep_len = 0 /\ total_steps % L = 0) =>
                   /\ bursts = total_steps \div L
                   /\ total_cycles = total_steps

C12_Witness ==
    /\ pc = "done"
    /\ ep_lens = {2}
    /\ ep_len = 0
    /\ cfg.max_ep_len_train = 2
    /\ total_steps = 6
    /\ bursts = 3
    /\ wrap_log # <<>>
    /\ max_size = 2

\* the first temperature step of the run, from log_alpha = LogAlphaInit, has
\* been taken in the cycle under way
FirstAlphaStepTaken == pc = "run" /\ total_cycles = 0 /\ "alpha" \in ran

\* logp_pi + target_entropy of the rows the temperature step has read
EntropyGap == [k \in DOMAIN logp_pi |-> logp_pi[k] + target_entropy]

\* C13 (as claimed): from log_alpha = 1.0, one temperature step leaves
\* log_alpha different from 1.0 whenever logp_pi + target_entropy is nonzero
\* for every row of the batch.
C13_ChangesWhenRowsNonzero ==
    (FirstAlphaStepTaken /\ \A k \in DOMAIN EntropyGap : EntropyGap[k] # 0)
        => log_alpha # LogAlphaInit

\* C13 (amended): from log_alpha = 1.0, one temperature step leaves
\* log_alpha different from 1.0 whenever the mean over the batch of
\* logp_pi + target_entropy is nonzero.
C13_ChangesWhenMeanNonzero ==
    (FirstAlphaStepTaken /\ SumSeq(EntropyGap) # 0) => log_alpha # LogAlphaInit

C13_Witness ==
    /\ FirstAlphaStepTaken
    /\ cfg.batch_size = 2
    /\ EntropyGap = <<0, -1>>
    /\ log_alpha = LogAlphaInit - 1

\* C14 (as claimed): with a learned alpha, the alpha that the losses of a
\* cycle read is the same wherever the log_alpha step falls among the
\* other ops of the cycle: it is exp of log_alpha as the cycle found it.
C14_AlphaReadOrderIndependent ==
    (pc = "run" /\ "exp" \in ran) => alpha_t = Exp(log_alpha_pre)

\* the cycle under way has run all its ops
CycleComplete == pc = "run" /\ ran = step_ops

\* C19 (as claimed): the run started with --alpha 0.2 builds its graph and
\* goes on to train; a run with a fixed alpha executes in each cycle the
\* policy, value and Polyak steps and no temperature step, a run with
\* --alpha auto executes one temperature step more, exactly once.
C19_AlphaOptionModes ==
    /\ cfg.alpha = args_alpha("0.2") => pc # "error"
    /\ (CycleComplete /\ cfg.alpha # "auto") => order = <<"pi", "value", "polyak">>
    /\ (CycleComplete /\ cfg.alpha = "auto") =>
          /\ Writes = <<"pi", "value", "polyak">>
          /\ Len(SelectSeq(order, LAMBDA op : op = "alpha")) = 1

\* C11: for a row whose terminal flag is 1, q_backup is the row's reward,
\* whatever gamma, alpha, the target Q estimates and logp_pi2 are; for a row
\* whose flag is 0 it is reward + gamma * (min(q1_pi_, q2_pi_) - alpha *
\* logp_pi2) (both sides in units of 1/GammaDen).
C11_BackupMasksTerminal ==
    pc = "evaluated" =>
        /\ feed.d_ph = 1 => q_backup_val = GammaDen * feed.r_ph
        /\ feed.d_ph = 0 =>
              q_backup_val =
                  GammaDen * feed.r_ph
                      + feed.gamma * (Min(feed.q1_pi_, feed.q2_pi_)
                                          - feed.alpha * feed.logp_pi2)

C11_Witness ==
    /\ pc = "evaluated"
    /\ feed.d_ph = 1
    /\ feed.gamma = GammaDen
    /\ feed.r_ph = 1
    /\ feed.q1_pi_ = 1
    /\ feed.q2_pi_ = 0
    /\ feed.alpha = 1
    /\ feed.logp_pi2 = -1
    /\ q_backup_val = GammaDen

\* the step under way calls replay_buffer.store, which writes slot ptr
Stores == env_steps' = env_steps + 1

\* the slot written by the store call before the next one
LastWritten == (ptr + max_size - 1) % max_size

\* C21: the state of every stored transition is the observation env last
\* returned in the training episode under way: for the first store of an
\* episode the one returned by the reset that started it, for a later
\* store the next_state of the store before it, which the buffer still
\* holds; it is never an observation of an earlier episode.
C21_TransitionsChain ==
    [][Stores =>
          /\ obs1_buf'[ptr] = env_obs.obs
          /\ env_obs.episode = bursts + 1
          /\ ep_len = 0 => env_obs.by = "reset"
          /\ ep_len > 0 =>
                /\ env_obs.by = "step"
                /\ obs1_buf'[ptr] = obs2_buf[LastWritten]]_vars

C21_Witness ==
    /\ cfg.env_fn = "free"
    /\ max_size = 2
    /\ ep_len = 2
    /\ bursts >= 1
    /\ env_obs.episode = bursts + 1
    /\ obs1_buf[LastWritten] = obs2_buf[ptr]
    /\ obs1_buf[ptr] # obs2_buf[ptr]
    /\ obs2_buf[LastWritten] # obs2_buf[ptr]

====
